---------------------------- MODULE Spec2Model ----------------------------
(***************************************************************************)
(* BCM2711 Mini UART driver (rpi2): the /proc handlers, the transmit and   *)
(* receive paths, the configuration path and the statistics, as a state    *)
(* machine of concurrent callers over one device.                          *)
(*                                                                         *)
(* A step of a caller is one access to shared state (a device register, a  *)
(* statistics counter, a mutex, the configuration) together with the local *)
(* computation that follows it.  stats.x++ is a load and a store.          *)
(***************************************************************************)
EXTENDS Integers, Sequences, FiniteSets, TLC

(***************************************************************************)
(* Bounds of the model                                                     *)
(***************************************************************************)
\* callers' operations started after the driver has loaded
MaxCalls == 2
\* polls of uart_send_char before it gives up (timeout = 10000 in the code)
TxTimeout == 1
\* sizeof(kbuf) of uart_proc_read and uart_proc_write (512 in the code)
KbufSize == 3

\* the counters of struct uart_stats are u64: they wrap at StatMod (2^64 in
\* the code)
StatMod == 64
\* polls of the first wait of uart_proc_read (timeout = 1000 in the code)
RxTimeout == 1
\* MAX_CONSECUTIVE_NO_DATA of uart_proc_read (300 in the code)
MaxNoData == 2
\* depth of the device's receive FIFO (8 in the BCM2711)
FifoDepth == 2
\* u32 arithmetic wraps at WordMod (2^32 in the code)
WordMod == 64
\* the largest value of the 16-bit baud register (0xFFFF in the code)
RegMax == 3

Threads == {1, 2}

LF == 10
CR == 13
\* byte values callers and the device use: NUL, '\n', '\r', 'a'
Bytes == {0, LF, CR, 97}

Min(a, b) == IF a < b THEN a ELSE b

\* x++ on a u64 counter
Inc(x) == (x + 1) % StatMod

\* the count argument of a read of /proc/uart_rx
ReadCounts == {0, 1, 3}
\* what the receive FIFO holds when the first call starts
RxInit == {<<>>, <<97>>, <<0>>, <<97, 98>>, <<0, 98>>}
\* the bytes that arrive while the driver runs
RxBytes == {0, 97}

\* what callers write to /proc/uart_tx: "a", "a\0\n" and "\nb"
WriteBufs == {<<97>>, <<97, 0, LF>>, <<LF, 98>>}

(***************************************************************************)
(* rpi2.h                                                                  *)
(***************************************************************************)
BAUD_9600 == 9600
BAUD_19200 == 19200
BAUD_38400 == 38400
BAUD_57600 == 57600
BAUD_115200 == 115200
DATA_BITS_7 == 0
DATA_BITS_8 == 3
EINVAL == 22
EFAULT == 14
ENOMEM == 12

VARIABLES
    config,        \* struct uart_config config
    stats,         \* struct uart_stats stats
    uart_tx_mutex, \* owner of each mutex, 0 when free
    uart_rx_mutex,
    uart_config_mutex,
    regs,          \* the Mini UART registers the driver writes
    rxq,           \* the device's receive FIFO
    wire,          \* bytes written to MU_IO since the driver loaded, each with
                   \* its call and the time-outs of that call since its last byte
    txOrder,       \* calls of uart_send_string in the order they took the mutex
    pc,            \* each caller's position
    loc,           \* each caller's locals
    ret,           \* what each caller's last call returned
    ncalls,        \* calls started so far
    ovr,           \* the device's receiver-overrun bit (MU_LSR bit 1)
    rxq0,          \* the receive FIFO when the first call started
    rxReturned,    \* bytes uart_proc_read has returned to its callers
    events,        \* for each counter, its events since the last reset_stats
    resources      \* the register mappings and /proc entries the driver holds

vars == <<config, stats, uart_tx_mutex, uart_rx_mutex, uart_config_mutex,
          regs, rxq, wire, txOrder, pc, loc, ret, ncalls, ovr, rxq0, rxReturned,
          events, resources>>

\* a caller's locals outside any call
L0 == [kbuf |-> <<>>, count |-> 0, s |-> 1, stack |-> <<>>, i |-> 0,
       timeout |-> 0, cnd |-> 0, c |-> 0, tmp |-> 0, baud_reg |-> 0,
       call |-> 0, cmd |-> "none", drops |-> 0]

\* a return: the handler, its count argument, its value, the bytes copied to
\* the caller, and (uart_proc_read) the idle iterations counted at the end
R0 == [op |-> "none", arg |-> 0, val |-> 0, data |-> <<>>, idle |-> 0]

(***************************************************************************)
(* calculate_baud_register: u32 arithmetic                                 *)
(***************************************************************************)
BaudOk(baudrate, clock) ==
    /\ ~(baudrate = 0 \/ baudrate > clock \div 8)
    /\ (clock \div (8 * baudrate)) - 1 <= 65535

BaudReg(baudrate, clock) == (clock \div (8 * baudrate)) - 1

\* calculate_baud_register without the test of res against 0xFFFF
calculate_baud_register_unchecked(baudrate, clock) ==
    IF baudrate = 0 \/ baudrate > clock \div 8
    THEN [rc |-> -EINVAL, reg_value |-> 0]
    ELSE [rc |-> 0,
          reg_value |-> (((clock \div ((8 * baudrate) % WordMod)) - 1) % WordMod)
                            % (RegMax + 1)]

\* calculate_baud_register in the width of its variables: denominator and
\* res are u32, *reg_value is u16
calculate_baud_register(baudrate, clock) ==
    IF baudrate = 0 \/ baudrate > clock \div 8
    THEN [rc |-> -EINVAL, reg_value |-> 0]
    ELSE LET denominator == (8 * baudrate) % WordMod
             res == ((clock \div denominator) - 1) % WordMod
         IN  IF res > RegMax
             THEN [rc |-> -EINVAL, reg_value |-> 0]
             ELSE [rc |-> 0, reg_value |-> res % (RegMax + 1)]

(***************************************************************************)
(* What uart_send_string puts on the wire when no uart_send_char times out *)
(***************************************************************************)
RECURSIVE Expand(_)
Expand(s) ==
    IF s = <<>> \/ Head(s) = 0 THEN <<>>
    ELSE IF Head(s) = LF THEN <<CR, CR, LF>> \o Expand(Tail(s))
    ELSE <<Head(s)>> \o Expand(Tail(s))

\* "Mini UART driver loaded successfully!\r\n", sent by uart_driver_init
LoadMsg == <<77, 105, 110, 105, 32, 85, 65, 82, 84, 32, 100, 114, 105, 118,
             101, 114, 32, 108, 111, 97, 100, 101, 100, 32, 115, 117, 99, 99,
             101, 115, 115, 102, 117, 108, 108, 121, 33, 13, 10>>

(***************************************************************************)
(* The state when uart_driver_init has returned 0: the device programmed   *)
(* by uart_init_hardware from the compile-time configuration, the load     *)
(* message sent and counted (on a device that always had room).           *)
(***************************************************************************)
\* the five /proc entries, in the order uart_driver_init creates them
ProcNames == <<"uart_tx", "uart_rx", "uart_config", "uart_status", "uart_stats">>

\* what the driver holds before uart_driver_init and after a failed one
NoResources == [gpio |-> FALSE, uart |-> FALSE, procs |-> {}]

InitWith(clock, fifo, overrun) ==
    /\ resources = [gpio |-> TRUE, uart |-> TRUE,
                    procs |-> {ProcNames[k] : k \in 1..5}]
    /\ config = [baudrate |-> BAUD_9600, data_bits |-> DATA_BITS_8,
                 system_clock |-> clock]
    /\ stats = [tx_bytes |-> Len(Expand(LoadMsg)), rx_bytes |-> 0,
                tx_errors |-> 0, rx_errors |-> 0, fifo_overruns |-> 0]
    /\ uart_tx_mutex = 0
    /\ uart_rx_mutex = 0
    /\ uart_config_mutex = 0
    /\ regs = [ENABLES |-> 1, MU_CNTL |-> 3, MU_IER |-> 0, MU_IIR |-> 4,
               MU_LCR |-> DATA_BITS_8, MU_MCR |-> 0,
               MU_BAUD |-> BaudReg(BAUD_9600, clock)]
    /\ rxq = fifo
    /\ rxq0 = fifo
    /\ ovr = overrun
    /\ rxReturned = 0
    /\ events = stats
    /\ wire = <<>>
    /\ txOrder = <<>>
    /\ pc = [t \in Threads |-> "idle"]
    /\ loc = [t \in Threads |-> L0]
    /\ ret = [t \in Threads |-> R0]
    /\ ncalls = 0

Init == InitWith(500000000, <<>>, FALSE)

(***************************************************************************)
(* uart_send_char                                                          *)
(***************************************************************************)
\* uart_send_char with '\r' and '\n' confused: if (c == '\r') uart_send_char('\n')
EnterSwapped(stack, c, to) ==
    IF c = CR
    THEN <<[c |-> LF, timeout |-> TxTimeout, to |-> "sc_poll"],
           [c |-> CR, timeout |-> TxTimeout, to |-> to]>> \o stack
    ELSE <<[c |-> c, timeout |-> TxTimeout, to |-> to]>> \o stack

\* the frames pushed by a call uart_send_char(c) that returns to `to`:
\* timeout is initialised, and '\n' calls uart_send_char('\r') first
Enter(stack, c, to) ==
    IF c = LF
    THEN <<[c |-> CR, timeout |-> TxTimeout, to |-> "sc_poll"],
           [c |-> LF, timeout |-> TxTimeout, to |-> to]>> \o stack
    ELSE <<[c |-> c, timeout |-> TxTimeout, to |-> to]>> \o stack

\* while (!(readl(&uart->MU_LSR) & (1 << 5)) && timeout-- > 0) usleep_range(1, 2);
\* if (timeout <= 0) ...
uart_send_char_poll(t) ==
    /\ pc[t] = "sc_poll"
    /\ \E space \in BOOLEAN :
         LET f == Head(loc[t].stack)
             left == IF space THEN f.timeout ELSE f.timeout - 1
             leave == space \/ ~(f.timeout > 0)
         IN  /\ loc' = [loc EXCEPT ![t].stack =
                          <<[f EXCEPT !.timeout = left]>> \o Tail(loc[t].stack)]
             /\ pc' = [pc EXCEPT ![t] =
                          IF ~leave THEN "sc_poll"
                          ELSE IF left <= 0 THEN "sc_err_ld" ELSE "sc_write"]
    /\ ovr' = FALSE
    /\ UNCHANGED <<config, stats, uart_tx_mutex, uart_rx_mutex,
                   uart_config_mutex, regs, rxq, wire, txOrder, ret, ncalls,
                   rxq0, rxReturned, events, resources>>

\* stats.tx_errors++ (the load)
uart_send_char_err_ld(t) ==
    /\ pc[t] = "sc_err_ld"
    /\ loc' = [loc EXCEPT ![t].tmp = stats.tx_errors]
    /\ pc' = [pc EXCEPT ![t] = "sc_err_st"]
    /\ events' = [events EXCEPT !.tx_errors = Inc(@)]
    /\ UNCHANGED <<config, stats, uart_tx_mutex, uart_rx_mutex,
                   uart_config_mutex, regs, rxq, wire, txOrder, ret, ncalls,
                   ovr, rxq0, rxReturned, resources>>

\* stats.tx_errors++ (the store); return
uart_send_char_err_st(t) ==
    /\ pc[t] = "sc_err_st"
    /\ stats' = [stats EXCEPT !.tx_errors = Inc(loc[t].tmp)]
    /\ pc' = [pc EXCEPT ![t] = Head(loc[t].stack).to]
    /\ loc' = [loc EXCEPT ![t].stack = Tail(loc[t].stack), ![t].tmp = 0,
                          ![t].drops = @ + 1]
    /\ UNCHANGED <<config, uart_tx_mutex, uart_rx_mutex, uart_config_mutex,
                   regs, rxq, wire, txOrder, ret, ncalls, ovr, rxq0,
                   rxReturned, events, resources>>

\* writel((u32)(c & 0xFF), &uart->MU_IO)
uart_send_char_write(t) ==
    /\ pc[t] = "sc_write"
    /\ wire' = Append(wire, [call |-> loc[t].call,
                             c |-> Head(loc[t].stack).c % 256,
                             drops |-> loc[t].drops])
    /\ loc' = [loc EXCEPT ![t].drops = 0]
    /\ pc' = [pc EXCEPT ![t] = "sc_cnt_ld"]
    /\ UNCHANGED <<config, stats, uart_tx_mutex, uart_rx_mutex,
                   uart_config_mutex, regs, rxq, txOrder, ret, ncalls, ovr,
                   rxq0, rxReturned, events, resources>>

\* stats.tx_bytes++ (the load)
uart_send_char_cnt_ld(t) ==
    /\ pc[t] = "sc_cnt_ld"
    /\ loc' = [loc EXCEPT ![t].tmp = stats.tx_bytes]
    /\ pc' = [pc EXCEPT ![t] = "sc_cnt_st"]
    /\ events' = [events EXCEPT !.tx_bytes = Inc(@)]
    /\ UNCHANGED <<config, stats, uart_tx_mutex, uart_rx_mutex,
                   uart_config_mutex, regs, rxq, wire, txOrder, ret, ncalls,
                   ovr, rxq0, rxReturned, resources>>

\* stats.tx_bytes++ (the store); return
uart_send_char_cnt_st(t) ==
    /\ pc[t] = "sc_cnt_st"
    /\ stats' = [stats EXCEPT !.tx_bytes = Inc(loc[t].tmp)]
    /\ pc' = [pc EXCEPT ![t] = Head(loc[t].stack).to]
    /\ loc' = [loc EXCEPT ![t].stack = Tail(loc[t].stack), ![t].tmp = 0]
    /\ UNCHANGED <<config, uart_tx_mutex, uart_rx_mutex, uart_config_mutex,
                   regs, rxq, wire, txOrder, ret, ncalls, ovr, rxq0,
                   rxReturned, events, resources>>

(***************************************************************************)
(* uart_send_string                                                        *)
(***************************************************************************)
\* uart_send_string without the wait for the mutex
LockTxNoWait(t) ==
    /\ uart_tx_mutex' = t

\* mutex_lock(&uart_tx_mutex)
LockTx(t) ==
    /\ uart_tx_mutex = 0
    /\ uart_tx_mutex' = t

uart_send_string_lock(t) ==
    /\ pc[t] = "tx_lock"
    /\ LockTx(t)
    /\ txOrder' = Append(txOrder, loc[t].call)
    /\ pc' = [pc EXCEPT ![t] = "tx_loop"]
    /\ UNCHANGED <<config, stats, uart_rx_mutex, uart_config_mutex, regs,
                   rxq, wire, loc, ret, ncalls, ovr, rxq0, rxReturned,
                   events, resources>>

\* uart_send_string without its own uart_send_char('\r') before a '\n'
uart_send_string_loop_single(t) ==
    /\ pc[t] = "tx_loop"
    /\ LET c == loc[t].kbuf[loc[t].s]
       IN  IF c = 0
           THEN /\ pc' = [pc EXCEPT ![t] = "tx_unlock"]
                /\ loc' = loc
           ELSE /\ pc' = [pc EXCEPT ![t] = "sc_poll"]
                /\ loc' = [loc EXCEPT ![t].stack = Enter(@, c, "tx_loop"),
                                      ![t].s = @ + 1]
    /\ UNCHANGED <<config, stats, uart_tx_mutex, uart_rx_mutex,
                   uart_config_mutex, regs, rxq, wire, txOrder, ret, ncalls,
                   ovr, rxq0, rxReturned, events, resources>>

\* while (*s) { if (*s == '\n') uart_send_char('\r'); ...
uart_send_string_loop(t) ==
    /\ pc[t] = "tx_loop"
    /\ LET c == loc[t].kbuf[loc[t].s]
       IN  IF c = 0
           THEN /\ pc' = [pc EXCEPT ![t] = "tx_unlock"]
                /\ loc' = loc
           ELSE IF c = LF
           THEN /\ pc' = [pc EXCEPT ![t] = "sc_poll"]
                /\ loc' = [loc EXCEPT ![t].stack = Enter(@, CR, "tx_send")]
           ELSE /\ pc' = [pc EXCEPT ![t] = "sc_poll"]
                /\ loc' = [loc EXCEPT ![t].stack = Enter(@, c, "tx_loop"),
                                      ![t].s = @ + 1]
    /\ UNCHANGED <<config, stats, uart_tx_mutex, uart_rx_mutex,
                   uart_config_mutex, regs, rxq, wire, txOrder, ret, ncalls,
                   ovr, rxq0, rxReturned, events, resources>>

\* ... uart_send_char(*s++); }  after the '\r' of the loop
uart_send_string_send(t) ==
    /\ pc[t] = "tx_send"
    /\ pc' = [pc EXCEPT ![t] = "sc_poll"]
    /\ loc' = [loc EXCEPT ![t].stack = Enter(@, loc[t].kbuf[loc[t].s], "tx_loop"),
                          ![t].s = @ + 1]
    /\ UNCHANGED <<config, stats, uart_tx_mutex, uart_rx_mutex,
                   uart_config_mutex, regs, rxq, wire, txOrder, ret, ncalls,
                   ovr, rxq0, rxReturned, events, resources>>

\* mutex_unlock(&uart_tx_mutex); back in uart_proc_write: return count
uart_send_string_unlock(t) ==
    /\ pc[t] = "tx_unlock"
    /\ uart_tx_mutex' = 0
    /\ pc' = [pc EXCEPT ![t] = "idle"]
    /\ ret' = [ret EXCEPT ![t] = [R0 EXCEPT !.op = "write",
                                            !.arg = loc[t].count,
                                            !.val = loc[t].count]]
    /\ loc' = [loc EXCEPT ![t] = L0]
    /\ UNCHANGED <<config, stats, uart_rx_mutex, uart_config_mutex, regs,
                   rxq, wire, txOrder, ncalls, ovr, rxq0, rxReturned, events,
                   resources>>

(***************************************************************************)
(* uart_proc_write                                                         *)
(***************************************************************************)
\* len = min(count, sizeof(kbuf) - 1); copy_from_user; kbuf[len] = '\0'
uart_proc_write(t) ==
    /\ pc[t] = "idle"
    /\ ncalls < MaxCalls
    /\ \E ubuf \in WriteBufs, fault \in BOOLEAN :
         LET count == Len(ubuf)
             len == Min(count, KbufSize - 1)
         IN  /\ loc' = [loc EXCEPT ![t] =
                   [L0 EXCEPT !.kbuf = IF fault THEN <<>>
                                       ELSE SubSeq(ubuf, 1, len) \o <<0>>,
                              !.count = count,
                              !.call = ncalls + 1]]
             /\ pc' = [pc EXCEPT ![t] = IF fault THEN "w_err_ld" ELSE "tx_lock"]
    /\ ncalls' = ncalls + 1
    /\ ret' = [ret EXCEPT ![t] = R0]
    /\ UNCHANGED <<config, stats, uart_tx_mutex, uart_rx_mutex,
                   uart_config_mutex, regs, rxq, wire, txOrder, ovr, rxq0,
                   rxReturned, events, resources>>

\* copy_from_user failed: stats.tx_errors++ (the load)
uart_proc_write_err_ld(t) ==
    /\ pc[t] = "w_err_ld"
    /\ loc' = [loc EXCEPT ![t].tmp = stats.tx_errors]
    /\ pc' = [pc EXCEPT ![t] = "w_err_st"]
    /\ events' = [events EXCEPT !.tx_errors = Inc(@)]
    /\ UNCHANGED <<config, stats, uart_tx_mutex, uart_rx_mutex,
                   uart_config_mutex, regs, rxq, wire, txOrder, ret, ncalls,
                   ovr, rxq0, rxReturned, resources>>

\* stats.tx_errors++ (the store); return -EFAULT
uart_proc_write_err_st(t) ==
    /\ pc[t] = "w_err_st"
    /\ stats' = [stats EXCEPT !.tx_errors = Inc(loc[t].tmp)]
    /\ pc' = [pc EXCEPT ![t] = "idle"]
    /\ ret' = [ret EXCEPT ![t] = [R0 EXCEPT !.op = "write",
                                            !.arg = loc[t].count,
                                            !.val = -EFAULT]]
    /\ loc' = [loc EXCEPT ![t] = L0]
    /\ UNCHANGED <<config, uart_tx_mutex, uart_rx_mutex, uart_config_mutex,
                   regs, rxq, wire, txOrder, ncalls, ovr, rxq0, rxReturned,
                   events, resources>>

(***************************************************************************)
(* The device's receiver                                                   *)
(***************************************************************************)
\* a byte arrives and the receive FIFO has room for it
DevArrive ==
    /\ Len(rxq) < FifoDepth
    /\ \E b \in RxBytes : rxq' = Append(rxq, b)
    /\ UNCHANGED <<config, stats, uart_tx_mutex, uart_rx_mutex,
                   uart_config_mutex, regs, wire, txOrder, pc, loc, ret,
                   ncalls, ovr, rxq0, rxReturned, events, resources>>

\* a byte arrives and the receive FIFO is full: the byte is lost and the
\* device raises receiver overrun, until MU_LSR is read
DevOverrun ==
    /\ Len(rxq) = FifoDepth
    /\ ~ovr
    /\ ovr' = TRUE
    /\ UNCHANGED <<config, stats, uart_tx_mutex, uart_rx_mutex,
                   uart_config_mutex, regs, rxq, wire, txOrder, pc, loc, ret,
                   ncalls, rxq0, rxReturned, events, resources>>

\* uart_data_available: readl(&uart->MU_LSR) & (1 << 0)
uart_data_available == rxq # <<>>

(***************************************************************************)
(* uart_proc_read                                                          *)
(***************************************************************************)
\* uart_proc_read with the bound on count left out of its loops
RoomLeftNoCount(i, count) == i < KbufSize - 1

\* i < (sizeof(kbuf) - 1) && i < count
RoomLeft(i, count) == i < KbufSize - 1 /\ i < count

\* mutex_lock(&uart_rx_mutex)
LockRx(t) ==
    /\ uart_rx_mutex = 0
    /\ uart_rx_mutex' = t

\* if (*ppos > 0) return 0;
uart_proc_read(t) ==
    /\ pc[t] = "idle"
    /\ ncalls < MaxCalls
    /\ \E count \in ReadCounts, ppos \in {0, 1} :
         IF ppos > 0
         THEN /\ pc' = pc
              /\ loc' = loc
              /\ ret' = [ret EXCEPT ![t] = [R0 EXCEPT !.op = "read_eof",
                                                      !.arg = count]]
         ELSE /\ pc' = [pc EXCEPT ![t] = "rx_lock"]
              /\ loc' = [loc EXCEPT ![t] = [L0 EXCEPT !.count = count,
                                                      !.call = ncalls + 1]]
              /\ ret' = [ret EXCEPT ![t] = R0]
    /\ ncalls' = ncalls + 1
    /\ UNCHANGED <<config, stats, uart_tx_mutex, uart_rx_mutex,
                   uart_config_mutex, regs, rxq, wire, txOrder, ovr, rxq0,
                   rxReturned, events, resources>>

\* mutex_lock(&uart_rx_mutex); int timeout = 1000;
uart_proc_read_lock(t) ==
    /\ pc[t] = "rx_lock"
    /\ LockRx(t)
    /\ loc' = [loc EXCEPT ![t].timeout = RxTimeout]
    /\ pc' = [pc EXCEPT ![t] = "rx_wait"]
    /\ UNCHANGED <<config, stats, uart_tx_mutex, uart_config_mutex, regs, rxq,
                   wire, txOrder, ret, ncalls, ovr, rxq0, rxReturned, events,
                   resources>>

\* while (!uart_data_available() && timeout-- > 0) usleep_range(1000, 1500);
\* if (timeout <= 0) ... ; while (i < (sizeof(kbuf) - 1) && i < count) ...
uart_proc_read_wait(t) ==
    /\ pc[t] = "rx_wait"
    /\ LET avail == uart_data_available
           left == IF avail THEN loc[t].timeout ELSE loc[t].timeout - 1
           leave == avail \/ ~(loc[t].timeout > 0)
       IN  /\ loc' = [loc EXCEPT ![t].timeout = left]
           /\ pc' = [pc EXCEPT ![t] =
                        IF ~leave THEN "rx_wait"
                        ELSE IF left <= 0 THEN "rx_tmo"
                        ELSE IF RoomLeft(loc[t].i, loc[t].count) THEN "rx_inner"
                        ELSE "rx_unlock"]
    /\ ovr' = FALSE
    /\ UNCHANGED <<config, stats, uart_tx_mutex, uart_rx_mutex,
                   uart_config_mutex, regs, rxq, wire, txOrder, ret, ncalls,
                   rxq0, rxReturned, events, resources>>

\* the time-out return of uart_proc_read without its mutex_unlock
uart_proc_read_tmo_locked(t) ==
    /\ pc[t] = "rx_tmo"
    /\ pc' = [pc EXCEPT ![t] = "idle"]
    /\ ret' = [ret EXCEPT ![t] = [R0 EXCEPT !.op = "read",
                                            !.arg = loc[t].count]]
    /\ loc' = [loc EXCEPT ![t] = L0]
    /\ UNCHANGED <<config, stats, uart_tx_mutex, uart_rx_mutex,
                   uart_config_mutex, regs, rxq, wire, txOrder, ncalls, ovr,
                   rxq0, rxReturned, events, resources>>

\* if (timeout <= 0) { mutex_unlock(&uart_rx_mutex); return 0; }
uart_proc_read_tmo(t) ==
    /\ pc[t] = "rx_tmo"
    /\ uart_rx_mutex' = 0
    /\ pc' = [pc EXCEPT ![t] = "idle"]
    /\ ret' = [ret EXCEPT ![t] = [R0 EXCEPT !.op = "read",
                                            !.arg = loc[t].count]]
    /\ loc' = [loc EXCEPT ![t] = L0]
    /\ UNCHANGED <<config, stats, uart_tx_mutex, uart_config_mutex, regs, rxq,
                   wire, txOrder, ncalls, ovr, rxq0, rxReturned, events,
                   resources>>

\* while (uart_data_available() && i < (sizeof(kbuf) - 1) && i < count)
uart_proc_read_inner(t) ==
    /\ pc[t] = "rx_inner"
    /\ pc' = [pc EXCEPT ![t] =
                 IF uart_data_available /\ RoomLeft(loc[t].i, loc[t].count)
                 THEN "rc_avail" ELSE "rx_idle"]
    /\ ovr' = FALSE
    /\ UNCHANGED <<config, stats, uart_tx_mutex, uart_rx_mutex,
                   uart_config_mutex, regs, rxq, wire, txOrder, loc, ret,
                   ncalls, rxq0, rxReturned, events, resources>>

\* uart_receive_char: if (!uart_data_available()) return 0;
\* back in uart_proc_read: c = 0, nothing is stored
uart_receive_char_avail(t) ==
    /\ pc[t] = "rc_avail"
    /\ IF uart_data_available
       THEN /\ pc' = [pc EXCEPT ![t] = "rc_err"]
            /\ loc' = loc
       ELSE /\ pc' = [pc EXCEPT ![t] = "rx_inner"]
            /\ loc' = [loc EXCEPT ![t].c = 0]
    /\ ovr' = FALSE
    /\ UNCHANGED <<config, stats, uart_tx_mutex, uart_rx_mutex,
                   uart_config_mutex, regs, rxq, wire, txOrder, ret, ncalls,
                   rxq0, rxReturned, events, resources>>

\* uart_check_rx_errors: lsr = readl(&uart->MU_LSR); if (lsr & (1 << 1)) ...
uart_check_rx_errors(t) ==
    /\ pc[t] = "rc_err"
    /\ pc' = [pc EXCEPT ![t] = IF ovr THEN "rc_ovr_ld" ELSE "rc_cnt_ld"]
    /\ ovr' = FALSE
    /\ UNCHANGED <<config, stats, uart_tx_mutex, uart_rx_mutex,
                   uart_config_mutex, regs, rxq, wire, txOrder, loc, ret,
                   ncalls, rxq0, rxReturned, events, resources>>

\* stats.fifo_overruns++ (the load)
uart_check_rx_errors_ld(t) ==
    /\ pc[t] = "rc_ovr_ld"
    /\ loc' = [loc EXCEPT ![t].tmp = stats.fifo_overruns]
    /\ pc' = [pc EXCEPT ![t] = "rc_ovr_st"]
    /\ events' = [events EXCEPT !.fifo_overruns = Inc(@)]
    /\ UNCHANGED <<config, stats, uart_tx_mutex, uart_rx_mutex,
                   uart_config_mutex, regs, rxq, wire, txOrder, ret, ncalls,
                   ovr, rxq0, rxReturned, resources>>

\* stats.fifo_overruns++ (the store)
uart_check_rx_errors_st(t) ==
    /\ pc[t] = "rc_ovr_st"
    /\ stats' = [stats EXCEPT !.fifo_overruns = Inc(loc[t].tmp)]
    /\ loc' = [loc EXCEPT ![t].tmp = 0]
    /\ pc' = [pc EXCEPT ![t] = "rc_cnt_ld"]
    /\ UNCHANGED <<config, uart_tx_mutex, uart_rx_mutex, uart_config_mutex,
                   regs, rxq, wire, txOrder, ret, ncalls, ovr, rxq0,
                   rxReturned, events, resources>>

\* uart_receive_char: stats.rx_bytes++ (the load)
uart_receive_char_cnt_ld(t) ==
    /\ pc[t] = "rc_cnt_ld"
    /\ loc' = [loc EXCEPT ![t].tmp = stats.rx_bytes]
    /\ pc' = [pc EXCEPT ![t] = "rc_cnt_st"]
    /\ events' = [events EXCEPT !.rx_bytes = Inc(@)]
    /\ UNCHANGED <<config, stats, uart_tx_mutex, uart_rx_mutex,
                   uart_config_mutex, regs, rxq, wire, txOrder, ret, ncalls,
                   ovr, rxq0, rxReturned, resources>>

\* uart_receive_char: stats.rx_bytes++ (the store)
uart_receive_char_cnt_st(t) ==
    /\ pc[t] = "rc_cnt_st"
    /\ stats' = [stats EXCEPT !.rx_bytes = Inc(loc[t].tmp)]
    /\ loc' = [loc EXCEPT ![t].tmp = 0]
    /\ pc' = [pc EXCEPT ![t] = "rc_io"]
    /\ UNCHANGED <<config, uart_tx_mutex, uart_rx_mutex, uart_config_mutex,
                   regs, rxq, wire, txOrder, ret, ncalls, ovr, rxq0,
                   rxReturned, events, resources>>

\* c = uart_receive_char(); if (c != 0) { kbuf[i++] = c; consecutive_no_data = 0; }
Store(l, c) ==
    IF c # 0
    THEN [l EXCEPT !.c = c, !.kbuf = Append(@, c), !.i = @ + 1, !.cnd = 0]
    ELSE [l EXCEPT !.c = c]

\* uart_receive_char: return (char)(readl(&uart->MU_IO) & 0xFF);
\* a read of the empty FIFO (emptied since uart_data_available was read) yields any byte
uart_receive_char_io(t) ==
    /\ pc[t] = "rc_io"
    /\ IF rxq # <<>>
       THEN /\ loc' = [loc EXCEPT ![t] = Store(@, Head(rxq) % 256)]
            /\ rxq' = Tail(rxq)
       ELSE /\ \E b \in RxBytes : loc' = [loc EXCEPT ![t] = Store(@, b)]
            /\ rxq' = rxq
    /\ pc' = [pc EXCEPT ![t] = "rx_inner"]
    /\ UNCHANGED <<config, stats, uart_tx_mutex, uart_rx_mutex,
                   uart_config_mutex, regs, wire, txOrder, ret, ncalls, ovr,
                   rxq0, rxReturned, events, resources>>

\* if (i > 0 && !uart_data_available()) { usleep_range(1000, 1500);
\*     consecutive_no_data++; if (consecutive_no_data >= 300) break; }
\* else if (i == 0 && !uart_data_available()) { the same }
uart_proc_read_idle(t) ==
    /\ pc[t] = "rx_idle"
    /\ LET cnd == IF uart_data_available THEN loc[t].cnd ELSE loc[t].cnd + 1
       IN  /\ loc' = [loc EXCEPT ![t].cnd = cnd]
           /\ pc' = [pc EXCEPT ![t] =
                        IF ~uart_data_available /\ cnd >= MaxNoData
                        THEN "rx_unlock"
                        ELSE IF RoomLeft(loc[t].i, loc[t].count) THEN "rx_inner"
                        ELSE "rx_unlock"]
    /\ ovr' = FALSE
    /\ UNCHANGED <<config, stats, uart_tx_mutex, uart_rx_mutex,
                   uart_config_mutex, regs, rxq, wire, txOrder, ret, ncalls,
                   rxq0, rxReturned, events, resources>>

\* mutex_unlock(&uart_rx_mutex); if (i == 0) return 0; kbuf[i] = '\0';
\* if (copy_to_user(buf, kbuf, i)) ... ; *ppos += i; return i;
uart_proc_read_unlock(t) ==
    /\ pc[t] = "rx_unlock"
    /\ uart_rx_mutex' = 0
    /\ \E fault \in BOOLEAN :
         IF loc[t].i # 0 /\ fault
         THEN /\ pc' = [pc EXCEPT ![t] = "rx_err_ld"]
              /\ loc' = loc
              /\ ret' = ret
              /\ rxReturned' = rxReturned
         ELSE /\ pc' = [pc EXCEPT ![t] = "idle"]
              /\ ret' = [ret EXCEPT ![t] = [op |-> "read",
                                            arg |-> loc[t].count,
                                            val |-> loc[t].i,
                                            data |-> loc[t].kbuf,
                                            idle |-> loc[t].cnd]]
              /\ rxReturned' = rxReturned + loc[t].i
              /\ loc' = [loc EXCEPT ![t] = L0]
    /\ UNCHANGED <<config, stats, uart_tx_mutex, uart_config_mutex, regs, rxq,
                   wire, txOrder, ncalls, ovr, rxq0, events, resources>>

\* copy_to_user failed: stats.rx_errors++ (the load)
uart_proc_read_err_ld(t) ==
    /\ pc[t] = "rx_err_ld"
    /\ loc' = [loc EXCEPT ![t].tmp = stats.rx_errors]
    /\ pc' = [pc EXCEPT ![t] = "rx_err_st"]
    /\ events' = [events EXCEPT !.rx_errors = Inc(@)]
    /\ UNCHANGED <<config, stats, uart_tx_mutex, uart_rx_mutex,
                   uart_config_mutex, regs, rxq, wire, txOrder, ret, ncalls,
                   ovr, rxq0, rxReturned, resources>>

\* stats.rx_errors++ (the store); return -EFAULT
uart_proc_read_err_st(t) ==
    /\ pc[t] = "rx_err_st"
    /\ stats' = [stats EXCEPT !.rx_errors = Inc(loc[t].tmp)]
    /\ pc' = [pc EXCEPT ![t] = "idle"]
    /\ ret' = [ret EXCEPT ![t] = [R0 EXCEPT !.op = "read",
                                            !.arg = loc[t].count,
                                            !.val = -EFAULT,
                                            !.idle = loc[t].cnd]]
    /\ loc' = [loc EXCEPT ![t] = L0]
    /\ UNCHANGED <<config, uart_tx_mutex, uart_rx_mutex, uart_config_mutex,
                   regs, rxq, wire, txOrder, ncalls, ovr, rxq0, rxReturned,
                   events, resources>>

(***************************************************************************)
(* The text of the /proc reads                                             *)
(***************************************************************************)
\* "%u" and "%llu": the decimal digits of n
RECURSIVE Dec(_)
Dec(n) == IF n < 10 THEN <<n>> ELSE Dec(n \div 10) \o <<n % 10>>

\* the count argument of a read of uart_config, uart_status or uart_stats:
\* nothing, or room for the whole text
ProcCounts == {0, 512}

\* the values uart_config_read prints, and the length of its text
ConfigReport(cfg) ==
    [baudrate |-> Dec(cfg.baudrate),
     data_bits |-> IF cfg.data_bits = DATA_BITS_8 THEN "8" ELSE "7",
     system_clock |-> Dec(cfg.system_clock)]

ConfigLen(cfg) == 288 + Len(Dec(cfg.baudrate)) + 1 + Len(Dec(cfg.system_clock))

\* the values uart_stats_read prints, and the length of its text
StatsReport(st) ==
    [tx_bytes |-> Dec(st.tx_bytes), rx_bytes |-> Dec(st.rx_bytes),
     tx_errors |-> Dec(st.tx_errors), rx_errors |-> Dec(st.rx_errors),
     fifo_overruns |-> Dec(st.fifo_overruns)]

StatsLen(st) ==
    144 + Len(Dec(st.tx_bytes)) + Len(Dec(st.rx_bytes))
        + Len(Dec(st.tx_errors)) + Len(Dec(st.rx_errors))
        + Len(Dec(st.fifo_overruns))

YesNo(b) == IF b THEN "Yes" ELSE "No"

\* the values uart_status_read prints from lsr and stat, and the length of
\* its text
StatusReport(lsr, stat) ==
    [tx_empty |-> YesNo(lsr.bit5), tx_full |-> YesNo(stat.bit9),
     rx_data |-> YesNo(lsr.bit0),
     rx_overrun |-> IF lsr.bit1 THEN "Yes (ERROR!)" ELSE "No",
     tx_level |-> Dec(stat.tx_level % 16), rx_level |-> Dec(stat.rx_level % 16)]

StatusLen(lsr, stat) ==
    124 + (IF lsr.bit5 THEN 3 ELSE 2) + (IF stat.bit9 THEN 3 ELSE 2)
        + (IF lsr.bit0 THEN 3 ELSE 2) + (IF lsr.bit1 THEN 12 ELSE 2)
        + Len(Dec(stat.tx_level % 16)) + Len(Dec(stat.rx_level % 16))

\* if (len > count) len = count; if (copy_to_user(buf, kbuf, len)) return
\* -EFAULT; return len.  A count in ProcCounts takes the whole text or none.
ProcReturn(op, count, len, report, fault) ==
    IF Min(len, count) > 0 /\ fault
    THEN [R0 EXCEPT !.op = op, !.arg = count, !.val = -EFAULT]
    ELSE [R0 EXCEPT !.op = op, !.arg = count, !.val = Min(len, count),
                    !.data = IF len > count THEN <<>> ELSE <<report>>]

(***************************************************************************)
(* uart_config_read, uart_stats_read, uart_status_read                     *)
(***************************************************************************)
uart_config_read(t) ==
    /\ pc[t] = "idle"
    /\ ncalls < MaxCalls
    /\ \E count \in ProcCounts, ppos \in {0, 1}, fault \in BOOLEAN :
         ret' = [ret EXCEPT ![t] =
                    IF ppos > 0
                    THEN [R0 EXCEPT !.op = "config_read", !.arg = count]
                    ELSE ProcReturn("config_read", count, ConfigLen(config),
                                    ConfigReport(config), fault)]
    /\ ncalls' = ncalls + 1
    /\ UNCHANGED <<config, stats, uart_tx_mutex, uart_rx_mutex,
                   uart_config_mutex, regs, rxq, wire, txOrder, pc, loc, ovr,
                   rxq0, rxReturned, events, resources>>

uart_stats_read(t) ==
    /\ pc[t] = "idle"
    /\ ncalls < MaxCalls
    /\ \E count \in ProcCounts, ppos \in {0, 1}, fault \in BOOLEAN :
         ret' = [ret EXCEPT ![t] =
                    IF ppos > 0
                    THEN [R0 EXCEPT !.op = "stats_read", !.arg = count]
                    ELSE ProcReturn("stats_read", count, StatsLen(stats),
                                    StatsReport(stats), fault)]
    /\ ncalls' = ncalls + 1
    /\ UNCHANGED <<config, stats, uart_tx_mutex, uart_rx_mutex,
                   uart_config_mutex, regs, rxq, wire, txOrder, pc, loc, ovr,
                   rxq0, rxReturned, events, resources>>

\* if (*ppos > 0) return 0; lsr = readl(&uart->MU_LSR);
uart_status_read(t) ==
    /\ pc[t] = "idle"
    /\ ncalls < MaxCalls
    /\ \E count \in ProcCounts, ppos \in {0, 1}, space \in BOOLEAN :
         IF ppos > 0
         THEN /\ ret' = [ret EXCEPT ![t] = [R0 EXCEPT !.op = "status_read",
                                                      !.arg = count]]
              /\ pc' = pc
              /\ loc' = loc
              /\ ovr' = ovr
         ELSE /\ ret' = [ret EXCEPT ![t] = R0]
              /\ pc' = [pc EXCEPT ![t] = "st_stat"]
              /\ loc' = [loc EXCEPT ![t] =
                            [L0 EXCEPT !.count = count,
                                       !.kbuf = <<[bit0 |-> uart_data_available,
                                                   bit1 |-> ovr,
                                                   bit5 |-> space]>>]]
              /\ ovr' = FALSE
    /\ ncalls' = ncalls + 1
    /\ UNCHANGED <<config, stats, uart_tx_mutex, uart_rx_mutex,
                   uart_config_mutex, regs, rxq, wire, txOrder, rxq0,
                   rxReturned, events, resources>>

\* stat = readl(&uart->MU_STAT); snprintf ...; copy_to_user; return len
uart_status_read_stat(t) ==
    /\ pc[t] = "st_stat"
    /\ \E full \in BOOLEAN, fault \in BOOLEAN :
         LET lsr == loc[t].kbuf[1]
             stat == [bit9 |-> full,
                      tx_level |-> IF full THEN 8 ELSE 0,
                      rx_level |-> Len(rxq)]
         IN  ret' = [ret EXCEPT ![t] =
                        ProcReturn("status_read", loc[t].count,
                                   StatusLen(lsr, stat),
                                   StatusReport(lsr, stat), fault)]
    /\ pc' = [pc EXCEPT ![t] = "idle"]
    /\ loc' = [loc EXCEPT ![t] = L0]
    /\ UNCHANGED <<config, stats, uart_tx_mutex, uart_rx_mutex,
                   uart_config_mutex, regs, rxq, wire, txOrder, ncalls, ovr,
                   rxq0, rxReturned, events, resources>>

(***************************************************************************)
(* uart_config_write, uart_apply_config, uart_clear_fifos                  *)
(***************************************************************************)
\* what callers write to /proc/uart_config: the text, its length, and what
\* sscanf(kbuf, "baud=%u", &new_baud) makes of it (-1: no conversion)
CfgCmds ==
    {[text |-> "baud=9600", count |-> 9, new_baud |-> 9600],
     [text |-> "baud=115200", count |-> 11, new_baud |-> 115200],
     [text |-> "baud=1200", count |-> 9, new_baud |-> 1200],
     [text |-> "baud=57601", count |-> 10, new_baud |-> 57601],
     [text |-> "baud=0", count |-> 6, new_baud |-> 0],
     [text |-> "bits=8", count |-> 6, new_baud |-> -1],
     [text |-> "bits=7", count |-> 6, new_baud |-> -1],
     [text |-> "clear_fifo", count |-> 10, new_baud |-> -1],
     [text |-> "reset_stats", count |-> 11, new_baud |-> -1],
     [text |-> "help", count |-> 4, new_baud |-> -1]}

\* the validation of new_baud reduced to if (new_baud == 0)
UnsupportedOnlyZero(new_baud) == new_baud = 0

\* new_baud != BAUD_9600 && ... && new_baud != BAUD_115200
Unsupported(new_baud) ==
    new_baud \notin {BAUD_9600, BAUD_19200, BAUD_38400, BAUD_57600, BAUD_115200}

\* a return of uart_config_write
CfgReturn(op, cmd, val) ==
    [R0 EXCEPT !.op = op, !.arg = cmd.count, !.val = val, !.data = <<cmd.text>>]

\* copy_from_user, the parse, and the store into config that precedes
\* uart_apply_config
uart_config_write(t) ==
    /\ pc[t] = "idle"
    /\ ncalls < MaxCalls
    /\ \E cmd \in CfgCmds, fault \in BOOLEAN :
         LET return(op, val) ==
                 /\ ret' = [ret EXCEPT ![t] = CfgReturn(op, cmd, val)]
                 /\ pc' = pc
                 /\ loc' = loc
                 /\ config' = config
             goto(to, cfg) ==
                 /\ ret' = [ret EXCEPT ![t] = R0]
                 /\ pc' = [pc EXCEPT ![t] = to]
                 /\ loc' = [loc EXCEPT ![t] = [L0 EXCEPT !.count = cmd.count,
                                                         !.cmd = cmd.text]]
                 /\ config' = cfg
         IN  IF fault THEN return("cfg_fault", -EFAULT)
             ELSE IF cmd.new_baud >= 0
             THEN IF Unsupported(cmd.new_baud)
                  THEN return("cfg_unsupported", -EINVAL)
                  ELSE goto("ac_calc", [config EXCEPT !.baudrate = cmd.new_baud])
             ELSE IF cmd.text = "bits=8"
             THEN goto("ac_calc", [config EXCEPT !.data_bits = DATA_BITS_8])
             ELSE IF cmd.text = "bits=7"
             THEN goto("ac_calc", [config EXCEPT !.data_bits = DATA_BITS_7])
             ELSE IF cmd.text = "clear_fifo" THEN goto("cf_iir_rx", config)
             ELSE IF cmd.text = "reset_stats" THEN goto("cf_reset", config)
             ELSE return("cfg_invalid", -EINVAL)
    /\ ncalls' = ncalls + 1
    /\ UNCHANGED <<stats, uart_tx_mutex, uart_rx_mutex, uart_config_mutex,
                   regs, rxq, wire, txOrder, ovr, rxq0, rxReturned, events,
                   resources>>

\* if (calculate_baud_register(config.baudrate, &baud_reg) != 0) return -EINVAL;
\* back in uart_config_write: return -EINVAL
uart_apply_config_calc(t) ==
    /\ pc[t] = "ac_calc"
    /\ IF BaudOk(config.baudrate, config.system_clock)
       THEN /\ loc' = [loc EXCEPT ![t].baud_reg =
                          BaudReg(config.baudrate, config.system_clock) % 65536]
            /\ pc' = [pc EXCEPT ![t] = "ac_lock"]
            /\ ret' = ret
       ELSE /\ ret' = [ret EXCEPT ![t] =
                          [R0 EXCEPT !.op = "cfg_apply_failed",
                                     !.arg = loc[t].count, !.val = -EINVAL,
                                     !.data = <<loc[t].cmd>>]]
            /\ pc' = [pc EXCEPT ![t] = "idle"]
            /\ loc' = [loc EXCEPT ![t] = L0]
    /\ UNCHANGED <<config, stats, uart_tx_mutex, uart_rx_mutex,
                   uart_config_mutex, regs, rxq, wire, txOrder, ncalls, ovr,
                   rxq0, rxReturned, events, resources>>

\* mutex_lock(&uart_config_mutex)
uart_apply_config_lock(t) ==
    /\ pc[t] = "ac_lock"
    /\ uart_config_mutex = 0
    /\ uart_config_mutex' = t
    /\ pc' = [pc EXCEPT ![t] = "ac_dis"]
    /\ UNCHANGED <<config, stats, uart_tx_mutex, uart_rx_mutex, regs, rxq,
                   wire, txOrder, loc, ret, ncalls, ovr, rxq0, rxReturned,
                   events, resources>>

\* uart_apply_config without the write that disables the transmitter and the
\* receiver
uart_apply_config_no_disable(t) ==
    /\ pc[t] = "ac_dis"
    /\ pc' = [pc EXCEPT ![t] = "ac_iir_rx"]
    /\ UNCHANGED <<config, stats, uart_tx_mutex, uart_rx_mutex,
                   uart_config_mutex, regs, rxq, wire, txOrder, loc, ret,
                   ncalls, ovr, rxq0, rxReturned, events, resources>>

\* writel(0x0, &uart->MU_CNTL)
uart_apply_config_disable(t) ==
    /\ pc[t] = "ac_dis"
    /\ regs' = [regs EXCEPT !.MU_CNTL = 0]
    /\ pc' = [pc EXCEPT ![t] = "ac_iir_rx"]
    /\ UNCHANGED <<config, stats, uart_tx_mutex, uart_rx_mutex,
                   uart_config_mutex, rxq, wire, txOrder, loc, ret, ncalls,
                   ovr, rxq0, rxReturned, events, resources>>

\* uart_clear_fifos: writel(0x02, &uart->MU_IIR) empties the receive FIFO
uart_clear_fifos_rx(t) ==
    /\ pc[t] \in {"ac_iir_rx", "cf_iir_rx"}
    /\ regs' = [regs EXCEPT !.MU_IIR = 2]
    /\ rxq' = <<>>
    /\ pc' = [pc EXCEPT ![t] = IF pc[t] = "ac_iir_rx" THEN "ac_iir_tx"
                                                      ELSE "cf_iir_tx"]
    /\ UNCHANGED <<config, stats, uart_tx_mutex, uart_rx_mutex,
                   uart_config_mutex, wire, txOrder, loc, ret, ncalls, ovr,
                   rxq0, rxReturned, events, resources>>

\* uart_clear_fifos: writel(0x04, &uart->MU_IIR); usleep_range(100, 150);
\* for the clear_fifo command: return count
uart_clear_fifos_tx(t) ==
    /\ pc[t] \in {"ac_iir_tx", "cf_iir_tx"}
    /\ regs' = [regs EXCEPT !.MU_IIR = 4]
    /\ IF pc[t] = "ac_iir_tx"
       THEN /\ pc' = [pc EXCEPT ![t] = "ac_lcr"]
            /\ loc' = loc
            /\ ret' = ret
       ELSE /\ pc' = [pc EXCEPT ![t] = "idle"]
            /\ ret' = [ret EXCEPT ![t] =
                          [R0 EXCEPT !.op = "cfg_ok", !.arg = loc[t].count,
                                     !.val = loc[t].count,
                                     !.data = <<loc[t].cmd>>]]
            /\ loc' = [loc EXCEPT ![t] = L0]
    /\ UNCHANGED <<config, stats, uart_tx_mutex, uart_rx_mutex,
                   uart_config_mutex, rxq, wire, txOrder, ncalls, ovr, rxq0,
                   rxReturned, events, resources>>

\* writel(config.data_bits, &uart->MU_LCR)
uart_apply_config_lcr(t) ==
    /\ pc[t] = "ac_lcr"
    /\ regs' = [regs EXCEPT !.MU_LCR = config.data_bits]
    /\ pc' = [pc EXCEPT ![t] = "ac_baud"]
    /\ UNCHANGED <<config, stats, uart_tx_mutex, uart_rx_mutex,
                   uart_config_mutex, rxq, wire, txOrder, loc, ret, ncalls,
                   ovr, rxq0, rxReturned, events, resources>>

\* writel(baud_reg, &uart->MU_BAUD)
uart_apply_config_baud(t) ==
    /\ pc[t] = "ac_baud"
    /\ regs' = [regs EXCEPT !.MU_BAUD = loc[t].baud_reg]
    /\ pc' = [pc EXCEPT ![t] = "ac_en"]
    /\ UNCHANGED <<config, stats, uart_tx_mutex, uart_rx_mutex,
                   uart_config_mutex, rxq, wire, txOrder, loc, ret, ncalls,
                   ovr, rxq0, rxReturned, events, resources>>

\* writel(0x3, &uart->MU_CNTL); wmb();
uart_apply_config_enable(t) ==
    /\ pc[t] = "ac_en"
    /\ regs' = [regs EXCEPT !.MU_CNTL = 3]
    /\ pc' = [pc EXCEPT ![t] = "ac_unlock"]
    /\ UNCHANGED <<config, stats, uart_tx_mutex, uart_rx_mutex,
                   uart_config_mutex, rxq, wire, txOrder, loc, ret, ncalls,
                   ovr, rxq0, rxReturned, events, resources>>

\* mutex_unlock(&uart_config_mutex); return 0; in uart_config_write: return count
uart_apply_config_unlock(t) ==
    /\ pc[t] = "ac_unlock"
    /\ uart_config_mutex' = 0
    /\ pc' = [pc EXCEPT ![t] = "idle"]
    /\ ret' = [ret EXCEPT ![t] =
                  [R0 EXCEPT !.op = "cfg_ok", !.arg = loc[t].count,
                             !.val = loc[t].count, !.data = <<loc[t].cmd>>]]
    /\ loc' = [loc EXCEPT ![t] = L0]
    /\ UNCHANGED <<config, stats, uart_tx_mutex, uart_rx_mutex, regs, rxq,
                   wire, txOrder, ncalls, ovr, rxq0, rxReturned, events,
                   resources>>

\* memset that spares tx_bytes
ZeroedButTx(st) == [st EXCEPT !.rx_bytes = 0, !.tx_errors = 0, !.rx_errors = 0,
                              !.fifo_overruns = 0]

\* memset(&stats, 0, sizeof(stats))
Zeroed(st) == [tx_bytes |-> 0, rx_bytes |-> 0, tx_errors |-> 0,
               rx_errors |-> 0, fifo_overruns |-> 0]

\* the reset_stats command: memset(&stats, 0, sizeof(stats)); return count
uart_config_write_reset(t) ==
    /\ pc[t] = "cf_reset"
    /\ stats' = Zeroed(stats)
    /\ pc' = [pc EXCEPT ![t] = "idle"]
    /\ ret' = [ret EXCEPT ![t] =
                  [R0 EXCEPT !.op = "cfg_ok", !.arg = loc[t].count,
                             !.val = loc[t].count, !.data = <<loc[t].cmd>>]]
    /\ loc' = [loc EXCEPT ![t] = L0]
    /\ events' = [tx_bytes |-> 0, rx_bytes |-> 0, tx_errors |-> 0,
                  rx_errors |-> 0, fifo_overruns |-> 0]
    /\ UNCHANGED <<config, uart_tx_mutex, uart_rx_mutex, uart_config_mutex,
                   regs, rxq, wire, txOrder, ncalls, ovr, rxq0, rxReturned,
                   resources>>

CfgStep(t) ==
    \/ uart_config_read(t)
    \/ uart_stats_read(t)
    \/ uart_status_read(t)
    \/ uart_status_read_stat(t)
    \/ uart_config_write(t)
    \/ uart_apply_config_calc(t)
    \/ uart_apply_config_lock(t)
    \/ uart_apply_config_disable(t)
    \/ uart_clear_fifos_rx(t)
    \/ uart_clear_fifos_tx(t)
    \/ uart_apply_config_lcr(t)
    \/ uart_apply_config_baud(t)
    \/ uart_apply_config_enable(t)
    \/ uart_apply_config_unlock(t)
    \/ uart_config_write_reset(t)

\* the steps of a read of /proc/uart_rx on a device that never overruns
RxCore(t) ==
    \/ uart_proc_read(t)
    \/ uart_proc_read_lock(t)
    \/ uart_proc_read_wait(t)
    \/ uart_proc_read_tmo(t)
    \/ uart_proc_read_inner(t)
    \/ uart_receive_char_avail(t)
    \/ uart_check_rx_errors(t)
    \/ uart_receive_char_cnt_ld(t)
    \/ uart_receive_char_cnt_st(t)
    \/ uart_receive_char_io(t)
    \/ uart_proc_read_idle(t)
    \/ uart_proc_read_unlock(t)
    \/ uart_proc_read_err_ld(t)
    \/ uart_proc_read_err_st(t)

RxStep(t) ==
    \/ RxCore(t)
    \/ uart_check_rx_errors_ld(t)
    \/ uart_check_rx_errors_st(t)

TxStep(t) ==
    \/ uart_proc_write(t)
    \/ uart_proc_write_err_ld(t)
    \/ uart_proc_write_err_st(t)
    \/ uart_send_string_lock(t)
    \/ uart_send_string_loop(t)
    \/ uart_send_string_send(t)
    \/ uart_send_string_unlock(t)
    \/ uart_send_char_poll(t)
    \/ uart_send_char_err_ld(t)
    \/ uart_send_char_err_st(t)
    \/ uart_send_char_write(t)
    \/ uart_send_char_cnt_ld(t)
    \/ uart_send_char_cnt_st(t)

NextTx == \E t \in Threads : TxStep(t)

SpecTx == Init /\ [][NextTx]_vars

\* readers of /proc/uart_rx on a device that holds some bytes when the first
\* call starts and takes in no more (what arrives at the full FIFO is lost)
InitRx == \E fifo \in RxInit : InitWith(500000000, fifo, FALSE)

NextRx == DevOverrun \/ \E t \in Threads : RxStep(t)

SpecRx == InitRx /\ [][NextRx]_vars

\* one reader of /proc/uart_rx on a device that goes on receiving and never
\* overruns; the reader is scheduled whenever it can take a step
NextRxDev == DevArrive \/ RxCore(1)

SpecRxDev == Init /\ [][NextRxDev]_vars /\ WF_vars(RxCore(1))

\* callers of uart_config, uart_stats and uart_status on a device that holds
\* some received bytes and takes in no more
InitCfg == \E fifo \in RxInit : InitWith(500000000, fifo, FALSE)

NextCfg == DevOverrun \/ \E t \in Threads : CfgStep(t)

SpecCfg == InitCfg /\ [][NextCfg]_vars

\* the same callers on the driver built for the core clock of the Raspberry
\* Pi 4 (line 15) or for a core clock of 800 kHz
Clocks == {500000000, 800000}

InitClk == \E clock \in Clocks : InitWith(clock, <<>>, FALSE)

NextClk == \E t \in Threads : CfgStep(t)

SpecClk == InitClk /\ [][NextClk]_vars

\* callers of all five /proc files at once, on a device whose receive FIFO is
\* empty or full when the first call starts
NextAll ==
    \/ DevOverrun
    \/ \E t \in Threads : TxStep(t) \/ RxStep(t) \/ CfgStep(t)

InitAll == \E fifo \in {<<>>, <<0, 98>>} : InitWith(500000000, fifo, FALSE)

SpecAll == InitAll /\ [][NextAll]_vars

(***************************************************************************)
(* uart_driver_init                                                        *)
(***************************************************************************)
\* the clock the source sets, and one too slow for 9600 baud
AttachClocks == {500000000, 50000}

\* before uart_driver_init: nothing mapped, no /proc entry, the device as it
\* comes out of reset; caller 1 loads the module
InitAttach ==
    /\ resources = NoResources
    /\ \E clock \in AttachClocks :
          config = [baudrate |-> BAUD_9600, data_bits |-> DATA_BITS_8,
                    system_clock |-> clock]
    /\ stats = [tx_bytes |-> 0, rx_bytes |-> 0, tx_errors |-> 0,
                rx_errors |-> 0, fifo_overruns |-> 0]
    /\ events = stats
    /\ uart_tx_mutex = 0
    /\ uart_rx_mutex = 0
    /\ uart_config_mutex = 0
    /\ regs = [ENABLES |-> 0, MU_CNTL |-> 0, MU_IER |-> 0, MU_IIR |-> 0,
               MU_LCR |-> 0, MU_MCR |-> 0, MU_BAUD |-> 0]
    /\ rxq = <<>>
    /\ rxq0 = <<>>
    /\ ovr = FALSE
    /\ rxReturned = 0
    /\ wire = <<>>
    /\ txOrder = <<>>
    /\ pc = [t \in Threads |-> IF t = 1 THEN "di_gpio" ELSE "unloaded"]
    /\ loc = [t \in Threads |-> L0]
    /\ ret = [t \in Threads |-> R0]
    /\ ncalls = 0

\* a failed return of uart_driver_init: the step that failed and the error
AttachReturn(step, val) ==
    [R0 EXCEPT !.op = "uart_driver_init", !.val = val, !.data = <<step>>]

\* gpio = ioremap(GPIO_BASE, 0x1000); if (!gpio) return -ENOMEM;
uart_driver_init_gpio(t) ==
    /\ pc[t] = "di_gpio"
    /\ \E ok \in BOOLEAN :
         IF ok
         THEN /\ resources' = [resources EXCEPT !.gpio = TRUE]
              /\ pc' = [pc EXCEPT ![t] = "di_uart"]
              /\ ret' = ret
         ELSE /\ resources' = resources
              /\ pc' = [pc EXCEPT ![t] = "failed"]
              /\ ret' = [ret EXCEPT ![t] = AttachReturn("gpio", -ENOMEM)]
    /\ UNCHANGED <<config, stats, uart_tx_mutex, uart_rx_mutex,
                   uart_config_mutex, regs, rxq, wire, txOrder, loc, ncalls,
                   ovr, rxq0, rxReturned, events>>

\* uart = ioremap(AUX_BASE, ...); if (!uart) { iounmap(gpio); return -ENOMEM; }
uart_driver_init_uart(t) ==
    /\ pc[t] = "di_uart"
    /\ \E ok \in BOOLEAN :
         IF ok
         THEN /\ resources' = [resources EXCEPT !.uart = TRUE]
              /\ pc' = [pc EXCEPT ![t] = "hw_calc"]
              /\ ret' = ret
         ELSE /\ resources' = [resources EXCEPT !.gpio = FALSE]
              /\ pc' = [pc EXCEPT ![t] = "failed"]
              /\ ret' = [ret EXCEPT ![t] = AttachReturn("uart", -ENOMEM)]
    /\ UNCHANGED <<config, stats, uart_tx_mutex, uart_rx_mutex,
                   uart_config_mutex, regs, rxq, wire, txOrder, loc, ncalls,
                   ovr, rxq0, rxReturned, events>>

\* uart_init_gpio(); ret = uart_init_hardware(): its calculate_baud_register;
\* if (ret != 0) { iounmap(uart); iounmap(gpio); return ret; }
uart_init_hardware_calc(t) ==
    /\ pc[t] = "hw_calc"
    /\ IF BaudOk(config.baudrate, config.system_clock)
       THEN /\ loc' = [loc EXCEPT ![t].baud_reg =
                          BaudReg(config.baudrate, config.system_clock) % 65536]
            /\ pc' = [pc EXCEPT ![t] = "hw_enables"]
            /\ ret' = ret
            /\ resources' = resources
       ELSE /\ loc' = loc
            /\ pc' = [pc EXCEPT ![t] = "failed"]
            /\ ret' = [ret EXCEPT ![t] = AttachReturn("hardware", -EINVAL)]
            /\ resources' = [resources EXCEPT !.uart = FALSE, !.gpio = FALSE]
    /\ UNCHANGED <<config, stats, uart_tx_mutex, uart_rx_mutex,
                   uart_config_mutex, regs, rxq, wire, txOrder, ncalls, ovr,
                   rxq0, rxReturned, events>>

\* the register writes of uart_init_hardware, in their order: the register,
\* the value and the position that follows
HwWrite(p, l, cfg, r) ==
    CASE p = "hw_enables" ->
             [reg |-> "ENABLES", val |-> ((r.ENABLES \div 2) * 2) + 1, to |-> "hw_cntl0"]
      [] p = "hw_cntl0" -> [reg |-> "MU_CNTL", val |-> 0, to |-> "hw_ier"]
      [] p = "hw_ier" -> [reg |-> "MU_IER", val |-> 0, to |-> "hw_iir_rx"]
      [] p = "hw_iir_rx" -> [reg |-> "MU_IIR", val |-> 2, to |-> "hw_iir_tx"]
      [] p = "hw_iir_tx" -> [reg |-> "MU_IIR", val |-> 4, to |-> "hw_lcr"]
      [] p = "hw_lcr" -> [reg |-> "MU_LCR", val |-> cfg.data_bits, to |-> "hw_mcr"]
      [] p = "hw_mcr" -> [reg |-> "MU_MCR", val |-> 0, to |-> "hw_baud"]
      [] p = "hw_baud" -> [reg |-> "MU_BAUD", val |-> l.baud_reg, to |-> "hw_cntl3"]
      [] p = "hw_cntl3" -> [reg |-> "MU_CNTL", val |-> 3, to |-> "di_proc"]

uart_init_hardware_write(t) ==
    /\ pc[t] \in {"hw_enables", "hw_cntl0", "hw_ier", "hw_iir_rx", "hw_iir_tx",
                  "hw_lcr", "hw_mcr", "hw_baud", "hw_cntl3"}
    /\ LET w == HwWrite(pc[t], loc[t], config, regs)
       IN  /\ regs' = [regs EXCEPT ![w.reg] = w.val]
           /\ rxq' = IF pc[t] = "hw_iir_rx" THEN <<>> ELSE rxq
           /\ pc' = [pc EXCEPT ![t] = w.to]
           /\ loc' = [loc EXCEPT ![t].i = IF w.to = "di_proc" THEN 1 ELSE @]
    /\ UNCHANGED <<config, stats, uart_tx_mutex, uart_rx_mutex,
                   uart_config_mutex, wire, txOrder, ret, ncalls, ovr, rxq0,
                   rxReturned, events, resources>>

\* where uart_driver_init goes when its k-th proc_create fails
CleanupLabel(k) ==
    <<"cleanup_uart", "cleanup_tx", "cleanup_rx", "cleanup_config",
      "cleanup_status">>[k]

\* proc_create(...); if (!proc_x) goto cleanup_y;
uart_driver_init_proc(t) ==
    /\ pc[t] = "di_proc"
    /\ \E ok \in BOOLEAN :
         LET k == loc[t].i
         IN  IF ok
             THEN /\ resources' = [resources EXCEPT
                                      !.procs = @ \cup {ProcNames[k]}]
                  /\ pc' = [pc EXCEPT ![t] = IF k = 5 THEN "di_msg" ELSE "di_proc"]
                  /\ loc' = [loc EXCEPT ![t].i = IF k = 5 THEN 0 ELSE k + 1]
             ELSE /\ resources' = resources
                  /\ pc' = [pc EXCEPT ![t] = CleanupLabel(k)]
                  /\ loc' = [loc EXCEPT ![t].cmd = ProcNames[k]]
    /\ UNCHANGED <<config, stats, uart_tx_mutex, uart_rx_mutex,
                   uart_config_mutex, regs, rxq, wire, txOrder, ret, ncalls,
                   ovr, rxq0, rxReturned, events>>

\* the cleanup labels with cleanup_rx and cleanup_tx left out
CleanupSkipping(label, r) ==
    CASE label = "cleanup_status" ->
             [r EXCEPT !.procs = @ \ {"uart_status"}]
      [] label = "cleanup_config" ->
             [r EXCEPT !.procs = @ \ {"uart_config"}]
      [] label = "cleanup_uart" -> [r EXCEPT !.uart = FALSE, !.gpio = FALSE]
      [] OTHER -> r

\* the statement at each cleanup label
Cleanup(label, r) ==
    CASE label = "cleanup_status" ->
             [r EXCEPT !.procs = @ \ {"uart_status"}]
      [] label = "cleanup_config" ->
             [r EXCEPT !.procs = @ \ {"uart_config"}]
      [] label = "cleanup_rx" -> [r EXCEPT !.procs = @ \ {"uart_rx"}]
      [] label = "cleanup_tx" -> [r EXCEPT !.procs = @ \ {"uart_tx"}]
      [] label = "cleanup_uart" -> [r EXCEPT !.uart = FALSE, !.gpio = FALSE]

\* cleanup_status: ... cleanup_uart: iounmap(uart); iounmap(gpio);
\* return -ENOMEM;
uart_driver_init_cleanup(t) ==
    /\ pc[t] \in {"cleanup_status", "cleanup_config", "cleanup_rx",
                  "cleanup_tx", "cleanup_uart"}
    /\ resources' = Cleanup(pc[t], resources)
    /\ IF pc[t] = "cleanup_uart"
       THEN /\ pc' = [pc EXCEPT ![t] = "failed"]
            /\ ret' = [ret EXCEPT ![t] = AttachReturn(loc[t].cmd, -ENOMEM)]
            /\ loc' = [loc EXCEPT ![t] = L0]
       ELSE /\ pc' = [pc EXCEPT ![t] =
                         CASE pc[t] = "cleanup_status" -> "cleanup_config"
                           [] pc[t] = "cleanup_config" -> "cleanup_rx"
                           [] pc[t] = "cleanup_rx" -> "cleanup_tx"
                           [] pc[t] = "cleanup_tx" -> "cleanup_uart"]
            /\ ret' = ret
            /\ loc' = loc
    /\ UNCHANGED <<config, stats, uart_tx_mutex, uart_rx_mutex,
                   uart_config_mutex, regs, rxq, wire, txOrder, ncalls, ovr,
                   rxq0, rxReturned, events>>

\* uart_send_string("Mini UART driver loaded successfully!\r\n") on a device
\* that has room for every byte; return 0: callers may use the /proc files
uart_driver_init_msg(t) ==
    /\ pc[t] = "di_msg"
    /\ stats' = [stats EXCEPT !.tx_bytes = Len(Expand(LoadMsg))]
    /\ events' = [events EXCEPT !.tx_bytes = Len(Expand(LoadMsg))]
    /\ pc' = [u \in Threads |-> "idle"]
    /\ loc' = [loc EXCEPT ![t] = L0]
    /\ ret' = [ret EXCEPT ![t] = [R0 EXCEPT !.op = "uart_driver_init"]]
    /\ UNCHANGED <<config, uart_tx_mutex, uart_rx_mutex, uart_config_mutex,
                   regs, rxq, wire, txOrder, ncalls, ovr, rxq0, rxReturned,
                   resources>>

AttachStep(t) ==
    \/ uart_driver_init_gpio(t)
    \/ uart_driver_init_uart(t)
    \/ uart_init_hardware_calc(t)
    \/ uart_init_hardware_write(t)
    \/ uart_driver_init_proc(t)
    \/ uart_driver_init_cleanup(t)
    \/ uart_driver_init_msg(t)

\* the module is loaded by caller 1; once it is, callers write to uart_tx
NextAttach == AttachStep(1) \/ \E t \in Threads : TxStep(t)

SpecAttach == InitAttach /\ [][NextAttach]_vars

\* calculate_baud_register applied to every baud rate and every clock of the
\* word's width
InitBaud ==
    /\ resources = NoResources
    /\ \E b \in 0..(WordMod - 1), c \in 0..(WordMod - 1) :
          config = [baudrate |-> b, data_bits |-> DATA_BITS_8, system_clock |-> c]
    /\ stats = [tx_bytes |-> 0, rx_bytes |-> 0, tx_errors |-> 0,
                rx_errors |-> 0, fifo_overruns |-> 0]
    /\ events = stats
    /\ uart_tx_mutex = 0
    /\ uart_rx_mutex = 0
    /\ uart_config_mutex = 0
    /\ regs = [ENABLES |-> 0, MU_CNTL |-> 0, MU_IER |-> 0, MU_IIR |-> 0,
               MU_LCR |-> 0, MU_MCR |-> 0, MU_BAUD |-> 0]
    /\ rxq = <<>>
    /\ rxq0 = <<>>
    /\ ovr = FALSE
    /\ rxReturned = 0
    /\ wire = <<>>
    /\ txOrder = <<>>
    /\ pc = [t \in Threads |-> "idle"]
    /\ loc = [t \in Threads |-> L0]
    /\ ret = [t \in Threads |-> R0]
    /\ ncalls = 0

\* calculate_baud_register(config.baudrate, &baud_reg)
calculate_baud_register_call(t) ==
    /\ pc[t] = "idle"
    /\ ret[t] = R0
    /\ LET r == calculate_baud_register(config.baudrate, config.system_clock)
       IN  ret' = [ret EXCEPT ![t] = [R0 EXCEPT !.op = "calculate_baud_register",
                                               !.arg = config.baudrate,
                                               !.val = r.rc,
                                               !.data = <<r.reg_value>>]]
    /\ UNCHANGED <<config, stats, uart_tx_mutex, uart_rx_mutex,
                   uart_config_mutex, regs, rxq, wire, txOrder, pc, loc,
                   ncalls, ovr, rxq0, rxReturned, events, resources>>

NextBaud == \E t \in Threads : calculate_baud_register_call(t)

SpecBaud == InitBaud /\ [][NextBaud]_vars

(***************************************************************************)
(* Properties                                                              *)
(***************************************************************************)
StatFields == {"tx_bytes", "rx_bytes", "tx_errors", "rx_errors", "fifo_overruns"}

\* the place of a call in the order of acquisition of the transmit mutex
OrderIdx(call) == CHOOSE n \in 1..Len(txOrder) : txOrder[n] = call

\* C1: the bytes written to MU_IO are the calls' outputs one after another, in
\* the order in which the calls took uart_tx_mutex: along the wire the place of
\* a byte's call in that order never goes back, so a call's bytes are
\* contiguous and no byte of another call lies between two of them.
C1_NoInterleaving ==
    /\ \A k \in 1..Len(wire) : \E n \in 1..Len(txOrder) : txOrder[n] = wire[k].call
    /\ \A k \in 1..(Len(wire) - 1) :
          OrderIdx(wire[k].call) <= OrderIdx(wire[k + 1].call)
    /\ \A m, n \in 1..Len(txOrder) : txOrder[m] = txOrder[n] => m = n

\* C1 witness: a caller waits for uart_tx_mutex while the caller that holds it
\* has written a byte of its call and is about to write another, after an
\* earlier call's bytes.
C1_Witness ==
    \E t \in Threads, u \in Threads :
        /\ t # u
        /\ pc[t] = "tx_lock"
        /\ uart_tx_mutex = u
        /\ pc[u] = "sc_write"
        /\ Len(wire) >= 1
        /\ wire[Len(wire)].call = loc[u].call

\* C6 as claimed: every '\n' on the wire directly follows a '\r', whatever
\* the device does (before the first byte written here the wire carried the
\* '\n' that ends the load message).
C6_CrBeforeEveryLf ==
    \A k \in 1..Len(wire) :
        wire[k].c = LF => (k > 1 /\ wire[k - 1].c = CR)

\* C6 amended: every '\n' on the wire directly follows a '\r' written by the
\* same call, unless the uart_send_char('\r') made just before that '\n'
\* timed out.
C6_CrBeforeLfUnlessDropped ==
    \A k \in 1..Len(wire) :
        (wire[k].c = LF /\ wire[k].drops = 0)
            => (k > 1 /\ wire[k - 1].c = CR /\ wire[k - 1].call = wire[k].call)

\* C6 witness: a '\n' is on the wire after a time-out of the same call.
C6_Witness ==
    \E j, k \in 1..Len(wire) :
        /\ j < k
        /\ wire[j].call = wire[k].call
        /\ wire[j].drops > 0
        /\ wire[k].c = LF
        /\ wire[k].drops = 0

\* positions from which a caller's next step reads or writes a device register
RegPcs == {"sc_poll", "sc_write", "rx_wait", "rx_inner", "rc_avail", "rc_err",
           "rc_io", "rx_idle", "st_stat", "ac_dis", "ac_iir_rx", "ac_iir_tx",
           "ac_lcr", "ac_baud", "ac_en", "cf_iir_rx", "cf_iir_tx"}

\* caller u is in uart_apply_config after writel(0x0, &uart->MU_CNTL) and before
\* writel(0x3, &uart->MU_CNTL) has been done
MidReconfig(u) == pc[u] \in {"ac_iir_rx", "ac_iir_tx", "ac_lcr", "ac_baud", "ac_en"}

\* the step is an access of caller t to a device register
TouchesReg(t) ==
    \/ pc[t] \in RegPcs /\ (pc'[t] # pc[t] \/ loc'[t] # loc[t])
    \/ pc[t] = "idle" /\ pc'[t] = "st_stat"

\* C2: while a caller is in uart_apply_config between the write that disables
\* the transmitter and receiver and the write that enables them again, no
\* other caller reads or writes a device register.
C2_NoAccessMidReconfig ==
    [][\A t, u \in Threads : (t # u /\ MidReconfig(u)) => ~TouchesReg(t)]_vars

C4_ReceiveReturnsAll ==
    \A t \in Threads :
        (/\ ncalls = 1
         /\ pc[t] = "idle"
         /\ ret[t].op = "read"
         /\ ret[t].val >= 0
         /\ Len(rxq0) <= Min(ret[t].arg, KbufSize))
            => /\ ret[t].data = rxq0
               /\ ret[t].val = Len(rxq0)
               /\ ret[t].idle <= MaxNoData

\* positions inside uart_proc_read
RxPcs == {"rx_lock", "rx_wait", "rx_tmo", "rx_inner", "rc_avail", "rc_err",
          "rc_ovr_ld", "rc_ovr_st", "rc_cnt_ld", "rc_cnt_st", "rc_io",
          "rx_idle", "rx_unlock", "rx_err_ld", "rx_err_st"}

\* C5: a read of uart_rx never holds in kbuf, and never returns, more than
\* min(count, sizeof(kbuf)) bytes.
C5_ReceiveBounded ==
    \A t \in Threads :
        /\ pc[t] \in RxPcs
              => /\ loc[t].i = Len(loc[t].kbuf)
                 /\ loc[t].i <= Min(loc[t].count, KbufSize)
        /\ (ret[t].op = "read" /\ ret[t].val >= 0)
              => /\ ret[t].val = Len(ret[t].data)
                 /\ ret[t].val <= Min(ret[t].arg, KbufSize)

\* C5 witness: a read has returned as many bytes as its count allowed and the
\* device still holds received data.
C5_Witness ==
    \E t \in Threads :
        /\ pc[t] = "idle"
        /\ ret[t].op = "read"
        /\ ret[t].arg > 0
        /\ ret[t].val = ret[t].arg
        /\ rxq # <<>>

\* C7: every read of uart_rx that has started returns, whatever the device
\* receives meanwhile.
C7_ReceiveTerminates == (pc[1] # "idle") ~> (pc[1] = "idle")

\* C8: with no reset_stats, whenever all calls have returned tx_bytes is the
\* number of bytes written to MU_IO (those of the load message included) and
\* rx_bytes is the number of bytes uart_proc_read has returned to its callers.
C8_CountersMatchTransfers ==
    (\A t \in Threads : pc[t] = "idle")
        => /\ stats.tx_bytes = (Len(Expand(LoadMsg)) + Len(wire)) % StatMod
           /\ stats.rx_bytes = rxReturned % StatMod

\* the step is a read of uart_stats by caller t that copies out its whole text
IsStatsRead(t) ==
    /\ pc[t] = "idle"
    /\ ncalls' # ncalls
    /\ ret'[t].op = "stats_read"
    /\ ret'[t].val > 0
    /\ uart_stats_read(t)

\* a reset_stats command has returned to caller u, whose last call it is
ResetDone(u) ==
    /\ pc[u] = "idle"
    /\ ret[u].op = "cfg_ok"
    /\ ret[u].data = <<"reset_stats">>

\* what uart_stats_read reports when every counter is zero
AllZero(report) == \A f \in StatFields : report[f] = <<0>>

\* C9: a read of uart_stats made after a reset_stats command has returned,
\* with no transmission, reception or failed copy in between, reports the
\* five counters as 0.
C9_ResetThenReadZero ==
    [][\A t, u \in Threads :
          (ResetDone(u) /\ IsStatsRead(t)) => AllZero(ret'[t].data[1])]_vars

\* C9 witness: one caller's reset_stats has returned and another caller's read
\* of uart_stats has reported five zeros, tx_bytes having counted the load
\* message before.
C9_Witness ==
    \E t, u \in Threads :
        /\ t # u
        /\ ResetDone(u)
        /\ pc[t] = "idle"
        /\ ret[t].op = "stats_read"
        /\ ret[t].val > 0
        /\ AllZero(ret[t].data[1])

\* C11: once all calls have returned, each counter equals the number of its
\* events since the last reset_stats (since the driver loaded, when there was
\* none).
C11_NoLostUpdate ==
    (\A t \in Threads : pc[t] = "idle")
        => \A f \in StatFields : stats[f] = events[f]

\* caller t has written the text of cmd to uart_config in this step
Issued(t, cmd) ==
    /\ pc[t] = "idle"
    /\ ncalls' # ncalls
    /\ \/ /\ ret'[t].op \in {"cfg_fault", "cfg_unsupported", "cfg_invalid"}
          /\ ret'[t].data = <<cmd.text>>
       \/ /\ pc'[t] # "idle"
          /\ loc'[t].cmd = cmd.text
    /\ uart_config_write(t)

\* C12: a "baud=N" written to uart_config with N (the u32 that sscanf stores
\* in new_baud) none of 9600, 19200, 38400, 57600, 115200 returns -EINVAL and
\* changes neither the configuration nor the statistics nor a register; and
\* the configured baud rate is always one of the five.
C12_UnsupportedBaudRejected ==
    /\ [](config.baudrate \in {9600, 19200, 38400, 57600, 115200})
    /\ [][\A t \in Threads, cmd \in CfgCmds :
            (/\ cmd.new_baud >= 0
             /\ cmd.new_baud \notin {9600, 19200, 38400, 57600, 115200}
             /\ Issued(t, cmd)
             /\ ret'[t].op # "cfg_fault")
                => /\ ret'[t].op = "cfg_unsupported"
                   /\ ret'[t].val = -EINVAL
                   /\ pc'[t] = "idle"
                   /\ UNCHANGED <<config, stats, regs>>]_vars

\* C12 witness: an unsupported rate has been refused after a caller had
\* changed the rate to 115200, which is still configured.
C12_Witness ==
    \E t \in Threads :
        /\ pc[t] = "idle"
        /\ ret[t].op = "cfg_unsupported"
        /\ ret[t].data = <<"baud=57601">>
        /\ config.baudrate = BAUD_115200
        /\ regs.MU_BAUD = BaudReg(BAUD_115200, config.system_clock)

\* C13: calculate_baud_register fails exactly when b = 0, or 8 * b > c, or
\* floor(c / (8 * b)) - 1 exceeds the register, and otherwise yields exactly
\* floor(c / (8 * b)) - 1 (the right-hand sides in unbounded integers); for
\* the five supported rates at 500 MHz it succeeds within 0xFFFF, with 541
\* for 115200.
C13_DivisorExact ==
    /\ \A t \in Threads :
          ret[t].op = "calculate_baud_register"
              => LET b == config.baudrate
                     c == config.system_clock
                     fails == \/ b = 0
                              \/ 8 * b > c
                              \/ (c \div (8 * b)) - 1 > RegMax
                 IN  /\ (ret[t].val # 0) <=> fails
                     /\ fails => ret[t].val = -EINVAL
                     /\ ~fails => ret[t].data = <<(c \div (8 * b)) - 1>>
    /\ \A b \in {BAUD_9600, BAUD_19200, BAUD_38400, BAUD_57600, BAUD_115200} :
          /\ BaudOk(b, 500000000)
          /\ BaudReg(b, 500000000) = (500000000 \div (8 * b)) - 1
          /\ BaudReg(b, 500000000) <= 65535
    /\ BaudReg(BAUD_115200, 500000000) = 541

\* C13 witness: calculate_baud_register has refused a baud rate that is not 0
\* and not above clock / 8, because the divisor does not fit the register.
C13_Witness ==
    \E t \in Threads :
        /\ ret[t].op = "calculate_baud_register"
        /\ ret[t].val = -EINVAL
        /\ config.baudrate # 0
        /\ 8 * config.baudrate <= config.system_clock

\* the mutexes caller t holds
Held(t) ==
    {m \in {"config", "tx", "rx"} :
        \/ m = "config" /\ uart_config_mutex = t
        \/ m = "tx" /\ uart_tx_mutex = t
        \/ m = "rx" /\ uart_rx_mutex = t}

\* the owner of the mutex a caller at position p waits for, 0 for none
Awaited(p) ==
    CASE p = "tx_lock" -> uart_tx_mutex
      [] p = "rx_lock" -> uart_rx_mutex
      [] p = "ac_lock" -> uart_config_mutex
      [] OTHER -> 0

C15_AttachUnwinds ==
    /\ resources.procs # {} => (resources.gpio /\ resources.uart)
    /\ \A t \in Threads :
          /\ pc[t] = "failed"
                => /\ resources = NoResources
                   /\ ret[t].op = "uart_driver_init"
                   /\ ret[t].val \in {-ENOMEM, -EINVAL}
          /\ pc[t] = "idle"
                => resources = [gpio |-> TRUE, uart |-> TRUE,
                                procs |-> {ProcNames[k] : k \in 1..5}]

\* C15 witness: uart_driver_init has returned an error because the fifth
\* proc_create failed, after four entries had been created.
C15_Witness ==
    \E t \in Threads :
        /\ pc[t] = "failed"
        /\ ret[t].op = "uart_driver_init"
        /\ ret[t].data = <<"uart_stats">>
        /\ resources = NoResources

\* C16: a poll of uart_send_char (for a byte other than line-feed) that reads
\* MU_LSR with the transmit-space bit set leaves the wait and the byte is
\* written; space seen is the poll that leaves the loop without counting
\* timeout down.
C16_WrittenWhenSpaceSeen ==
    [][\A t \in Threads :
          (/\ pc[t] = "sc_poll"
           /\ pc'[t] # "sc_poll"
           /\ Head(loc[t].stack).c # LF
           /\ Head(loc'[t].stack).timeout = Head(loc[t].stack).timeout)
              => pc'[t] = "sc_write"]_vars

\* C17: a poll of the initial wait of uart_proc_read that finds data available
\* leaves the wait for the drain loops, never for the empty return.
C17_DataSeenIsRead ==
    [][\A t \in Threads :
          (/\ pc[t] = "rx_wait"
           /\ uart_data_available
           /\ pc'[t] # "rx_wait")
              => pc'[t] # "rx_tmo"]_vars

\* C18: whenever no call is in progress the device is programmed as config
\* says: MU_BAUD holds the divisor of config.baudrate at config.system_clock
\* and MU_LCR holds config.data_bits.
C18_HardwareMatchesConfig ==
    (\A t \in Threads : pc[t] = "idle")
        => /\ regs.MU_BAUD = BaudReg(config.baudrate, config.system_clock)
           /\ regs.MU_LCR = config.data_bits

\* C19: the caller that holds uart_config_mutex makes the register writes of
\* uart_apply_config in this order and no other step: MU_CNTL = 0,
\* MU_IIR = 2, MU_IIR = 4, MU_LCR = config.data_bits, MU_BAUD = baud_reg,
\* MU_CNTL = 3, then the release; every one of these writes is made with the
\* mutex held, the transmitter and the receiver stay disabled from the first
\* write to the last, and MU_CNTL is 3 whenever the mutex is free.
C19_ApplyOrder ==
    /\ [](uart_config_mutex = 0 => regs.MU_CNTL = 3)
    /\ [](\A t \in Threads :
            /\ pc[t] \in {"ac_dis", "ac_iir_rx", "ac_iir_tx", "ac_lcr",
                          "ac_baud", "ac_en", "ac_unlock"}
                  => uart_config_mutex = t
            /\ pc[t] \in {"ac_iir_rx", "ac_iir_tx", "ac_lcr", "ac_baud", "ac_en"}
                  => regs.MU_CNTL = 0
            /\ pc[t] = "ac_unlock"
                  => regs.MU_CNTL = 3 /\ regs.MU_BAUD = loc[t].baud_reg)
    /\ [][\A t \in Threads :
            (uart_config_mutex = t /\ pc'[t] # pc[t]) =>
               \/ /\ pc[t] = "ac_dis" /\ pc'[t] = "ac_iir_rx"
                  /\ regs' = [regs EXCEPT !.MU_CNTL = 0]
               \/ /\ pc[t] = "ac_iir_rx" /\ pc'[t] = "ac_iir_tx"
                  /\ regs' = [regs EXCEPT !.MU_IIR = 2]
               \/ /\ pc[t] = "ac_iir_tx" /\ pc'[t] = "ac_lcr"
                  /\ regs' = [regs EXCEPT !.MU_IIR = 4]
               \/ /\ pc[t] = "ac_lcr" /\ pc'[t] = "ac_baud"
                  /\ regs' = [regs EXCEPT !.MU_LCR = config.data_bits]
               \/ /\ pc[t] = "ac_baud" /\ pc'[t] = "ac_en"
                  /\ regs' = [regs EXCEPT !.MU_BAUD = loc[t].baud_reg]
               \/ /\ pc[t] = "ac_en" /\ pc'[t] = "ac_unlock"
                  /\ regs' = [regs EXCEPT !.MU_CNTL = 3]
               \/ /\ pc[t] = "ac_unlock" /\ pc'[t] = "idle"
                  /\ regs' = regs
                  /\ uart_config_mutex' = 0]_vars

\* C19 witness: a baud=115200 command has made every write of
\* uart_apply_config and is about to release the mutex.
C19_Witness ==
    \E t \in Threads :
        /\ pc[t] = "ac_unlock"
        /\ uart_config_mutex = t
        /\ loc[t].cmd = "baud=115200"
        /\ regs.MU_BAUD = 541
        /\ regs.MU_CNTL = 3

\* the bytes a call has written to MU_IO, in the order it wrote them
RECURSIVE CallBytes(_, _)
CallBytes(w, call) ==
    IF w = <<>> THEN <<>>
    ELSE IF Head(w).call = call
         THEN <<Head(w).c>> \o CallBytes(Tail(w), call)
         ELSE CallBytes(Tail(w), call)

\* no uart_send_char of the call that caller t is making has timed out
NoTimeout(t) ==
    /\ loc[t].drops = 0
    /\ \A k \in 1..Len(wire) : wire[k].call = loc[t].call => wire[k].drops = 0

\* the number of line-feeds in s
NumLf(s) == Cardinality({k \in 1..Len(s) : s[k] = LF})

\* C20: when uart_send_string has sent a string without zero bytes and none of
\* its uart_send_char calls timed out, the bytes the call wrote to MU_IO are
\* the string with every '\n' replaced by '\r', '\r', '\n'; their number is
\* the length of the string plus twice its line-feeds; and tx_bytes has
\* counted every byte written (the load message and the bytes on the wire),
\* so it grew by that number over the call.
C20_SendStringExpands ==
    \A t \in Threads :
        (/\ pc[t] = "tx_unlock"
         /\ NoTimeout(t)
         /\ \A k \in 1..(Len(loc[t].kbuf) - 1) : loc[t].kbuf[k] # 0)
            => LET s == SubSeq(loc[t].kbuf, 1, Len(loc[t].kbuf) - 1)
                   out == CallBytes(wire, loc[t].call)
               IN  /\ out = Expand(s)
                   /\ Len(out) = Len(s) + 2 * NumLf(s)
                   /\ stats.tx_bytes
                         = (Len(Expand(LoadMsg)) + Len(wire)) % StatMod

\* C20 witness: "\nb" has been sent without a time-out: the call wrote
\* '\r', '\r', '\n', 'b'.
C20_Witness ==
    \E t \in Threads :
        /\ pc[t] = "tx_unlock"
        /\ NoTimeout(t)
        /\ loc[t].kbuf = <<LF, 98, 0>>
        /\ CallBytes(wire, loc[t].call) = <<CR, CR, LF, 98>>

\* C21: the count that a write to /proc/uart_tx returns is the number of
\* bytes of the caller's buffer that uart_send_string passed to
\* uart_send_char: s is past exactly that many bytes of kbuf when the loop
\* ends.
C21_ReturnsBytesSent ==
    [][\A t \in Threads :
          (/\ pc[t] = "tx_unlock"
           /\ pc'[t] = "idle"
           /\ ret'[t].op = "write")
              => ret'[t].val = loc[t].s - 1]_vars

\* the step in which reset_stats zeroes the counters
IsResetStep == \E t \in Threads : pc[t] = "cf_reset" /\ pc'[t] = "idle"

\* C10: no counter ever takes a smaller value, except in the step of
\* reset_stats.
C10_CountersMonotonic ==
    [][IsResetStep \/ \A f \in StatFields : stats'[f] >= stats[f]]_vars

=============================================================================
